---- MODULE Spec2Model ----
(***************************************************************************)
(* Model of the word-level analysis service (src/analyze_service).          *)
(*                                                                          *)
(* A Python str is modelled as a sequence of one-character strings, so     *)
(* that lower-casing, the regular expression, str comparison and           *)
(* str.replace are computed character by character as Python does.         *)
(***************************************************************************)
EXTENDS Integers, Sequences, FiniteSets, TLC

VARIABLES
    pc,           \* position of the process: loading, ready, serving, responded, exited
    file_idx,     \* index into csv_files of the file load_word_levels is at
    in_file,      \* TRUE while a csv file is open and its lines are iterated
    nread,        \* number of records read so far by load_word_levels
    word_levels,  \* the dict word -> level
    observed,     \* history: lower-cased word -> levels of the records read for it
    variants,     \* history: spellings (as written) of the records read
    printed,      \* the last line written to stdout
    hashseed,     \* per-process str hash seed: fixes the iteration order of a set
    request,      \* the TextRequest being handled
    response,     \* what the endpoint returned for it
    calls,        \* the calls of wordnet.synsets made while handling it, with their outcome
    resubmitted   \* TRUE when the request is the previous request sent again

vars == <<pc, file_idx, in_file, nread, word_levels, observed, variants, printed,
          hashseed, request, response, calls, resubmitted>>

\* ---------------------------------------------------------------- bounds
MaxTextLen == 3
MaxRecords == 2

\* ------------------------------------------------------------ characters
UpperChars == {"A", "B", "C", "X"}
LowerChars == {"a", "b", "c", "x"}
DigitChars == {"1", "2"}

\* \w of the re module: letters, digits and the underscore
IsWordChar(c) == c \in UpperChars \cup LowerChars \cup DigitChars \cup {"_"}

\* code point of a character (str comparison is by code point)
Ord(c) ==
    CASE c = " " -> 32
      [] c = "," -> 44
      [] c = "1" -> 49
      [] c = "2" -> 50
      [] c = "A" -> 65
      [] c = "B" -> 66
      [] c = "C" -> 67
      [] c = "X" -> 88
      [] c = "_" -> 95
      [] c = "a" -> 97
      [] c = "b" -> 98
      [] c = "c" -> 99
      [] c = "x" -> 120

LowerChar(c) ==
    CASE c = "A" -> "a"
      [] c = "B" -> "b"
      [] c = "C" -> "c"
      [] c = "X" -> "x"
      [] OTHER -> c

\* str.lower()
Lower(s) == [i \in 1..Len(s) |-> LowerChar(s[i])]

\* str.replace('_', ' ')
ReplaceUnderscore(s) == [i \in 1..Len(s) |-> IF s[i] = "_" THEN " " ELSE s[i]]

\* s < t on str: lexicographic by code point, a proper prefix is smaller
StrLess(s, t) ==
    \E k \in 0..Len(s) :
        /\ k <= Len(t)
        /\ \A i \in 1..k : s[i] = t[i]
        /\ \/ k = Len(s) /\ k < Len(t)
           \/ k < Len(s) /\ k < Len(t) /\ Ord(s[k + 1]) < Ord(t[k + 1])

\* --------------------------------------------------------------- levels
A1 == <<"A", "1">>
A2 == <<"A", "2">>
B1 == <<"B", "1">>
B2 == <<"B", "2">>
C1 == <<"C", "1">>
Levels == {A1, A2, B1, B2, C1}

\* the result of dict.get for a missing key
None == <<"None">>

\* csv_files, in the order load_word_levels opens them
csv_files == <<"a1.csv", "a2.csv", "b1.csv", "b2.csv", "c1.csv">>

\* spellings a record of a csv file can carry in its word column
RecordWords == {<<"a">>, <<"A">>, <<"b">>}

\* ------------------------------------------------------ load_word_levels
\* always overwrite: the last record read for a word wins
LevelGreaterLastWins(level, stored) == TRUE

\* level > word_levels[word.lower()], a comparison of two str
LevelGreater(level, stored) == StrLess(stored, level)

\* the dict after one record "word|level" has been processed
StoreRecord(table, word, level) ==
    LET key == Lower(word) IN
    IF key \notin DOMAIN table \/ LevelGreater(level, table[key])
    THEN [k \in DOMAIN table \cup {key} |-> IF k = key THEN level ELSE table[k]]
    ELSE table

\* dict.get(key): the value, or None for a missing key
Get(table, key) == IF key \in DOMAIN table THEN table[key] ELSE None

\* ------------------------------------------------------------- wordnet
\* wordnet.synsets(word) of the lexical database: the list of synsets, each
\* with its lemma names and its definition.  The entry of a lists the word
\* itself, a lemma twice, a proper-noun spelling and a two-word lemma; the
\* database has no entry for any other word than a and b
Synsets(word) ==
    CASE word = <<"a">> ->
            <<[lemmas |-> <<<<"a">>, <<"b">>>>, definition |-> "a, sense 1"],
              [lemmas |-> <<<<"A">>, <<"b">>, <<"a", "_", "b">>>>,
               definition |-> "a, sense 2"]>>
      [] word = <<"b">> ->
            <<[lemmas |-> <<<<"b">>, <<"a">>>>, definition |-> "b, sense 1"],
              [lemmas |-> <<<<"a">>, <<"a", "_", "b">>>>,
               definition |-> "b, sense 2"]>>
      [] OTHER -> <<>>

\* the order in which a for loop visits a set of str: fixed by the hash seed
\* of the process, the same for every iteration over an equal set
RECURSIVE SetOrder(_, _)
SetOrder(seed, S) ==
    IF S = {} THEN <<>>
    ELSE LET first == CHOOSE x \in S : \A y \in S \ {x} :
                          IF seed = 0 THEN StrLess(x, y) ELSE StrLess(y, x)
         IN <<first>> \o SetOrder(seed, S \ {first})

\* ------------------------------------------------ get_synonym_suggestions
\* no comparison with the word at all: every lemma is a synonym
IsOtherFormAlways(synonym, word) == TRUE

\* synonym != word.lower()
IsOtherForm(synonym, word) == synonym /= Lower(word)

\* the condition "level and level >= min_level" on a candidate's level
Qualifies(level, min_level) ==
    /\ level /= None
    /\ level /= <<>>
    /\ ~StrLess(level, min_level)

get_synonym_suggestions(word, table, min_level) ==
    LET synsets == Synsets(Lower(word))
        all_synonyms ==
            {syn \in UNION {{ReplaceUnderscore(synsets[i].lemmas[j]) :
                                j \in 1..Len(synsets[i].lemmas)} :
                            i \in 1..Len(synsets)} :
                IsOtherForm(syn, word)}
        visited == SetOrder(hashseed, all_synonyms)
        kept == SelectSeq(visited,
                    LAMBDA syn : Qualifies(Get(table, Lower(syn)), min_level))
    IN [i \in 1..Len(kept) |->
           [word |-> kept[i],
            level |-> Get(table, Lower(kept[i])),
            definition |-> synsets[1].definition]]

\* ----------------------------------------------------------- analyze_text
\* \b at position p of s (between s[p-1] and s[p]): exactly one side is \w
IsBoundary(s, p) ==
    LET before == p > 1 /\ IsWordChar(s[p - 1])
        after == p <= Len(s) /\ IsWordChar(s[p])
    IN before /= after

\* the end of the match of \b\w+\b attempted at position i: \w+ is greedy and
\* gives characters back until \b holds; 0 when there is no match at i
MatchEnd(s, i) ==
    LET ends == {j \in i..Len(s) :
                    /\ \A k \in i..j : IsWordChar(s[k])
                    /\ IsBoundary(s, j + 1)}
    IN IF IsBoundary(s, i) /\ ends /= {}
       THEN CHOOSE j \in ends : \A k \in ends : k <= j
       ELSE 0

\* re.findall(r'\b\w+\b', s): leftmost non-overlapping matches, scanning from i
RECURSIVE FindAll(_, _)
FindAll(s, i) ==
    IF i > Len(s) THEN <<>>
    ELSE LET j == MatchEnd(s, i) IN
         IF j = 0 THEN FindAll(s, i + 1)
         ELSE <<SubSeq(s, i, j)>> \o FindAll(s, j + 1)

\* re.findall applied to the text as it is, without text.lower()
TokenizeCaseSensitive(text) == FindAll(text, 1)

\* re.findall(r'\b\w+\b', text.lower())
Tokenize(text) == FindAll(Lower(text), 1)

\* Counter(words): one item per distinct word, in order of first occurrence
RECURSIVE CounterOf(_, _)
CounterOf(words, items) ==
    IF words = <<>> THEN items
    ELSE LET w == Head(words)
             at == {i \in 1..Len(items) : items[i].word = w}
         IN IF at = {}
            THEN CounterOf(Tail(words), Append(items, [word |-> w, count |-> 1]))
            ELSE CounterOf(Tail(words),
                     [i \in 1..Len(items) |->
                         IF i \in at
                         THEN [word |-> w, count |-> items[i].count + 1]
                         ELSE items[i]])

\* suggestions only for a repeated word
GateRepeatedOnly(level, count) == count > 1

\* level == 'A1' or count > 1
Gate(level, count) == level = A1 \/ count > 1

\* the sort key compares the words only
KeyLessByWord(x, y) == StrLess(x.word, y.word)

\* (x["level"], x["word"]) < (y["level"], y["word"]) on tuples of str
KeyLess(x, y) ==
    \/ StrLess(x.level, y.level)
    \/ x.level = y.level /\ StrLess(x.word, y.word)

\* list.sort(key=...): stable, so an item goes after the items not greater
RECURSIVE InsertSorted(_, _)
InsertSorted(sorted, x) ==
    IF sorted = <<>> THEN <<x>>
    ELSE IF KeyLess(x, Head(sorted)) THEN <<x>> \o sorted
    ELSE <<Head(sorted)>> \o InsertSorted(Tail(sorted), x)

RECURSIVE SortResult(_, _)
SortResult(result, sorted) ==
    IF result = <<>> THEN sorted
    ELSE SortResult(Tail(result), InsertSorted(sorted, Head(result)))

\* the for loop of analyze_text from item i on; failing is the word for which
\* wordnet.synsets raises during this request (None: the provider answers)
RECURSIVE AnalyzeLoop(_, _, _, _, _, _)
AnalyzeLoop(word_counts, i, table, failing, result, called) ==
    IF i > Len(word_counts)
    THEN [raised |-> FALSE, result |-> SortResult(result, <<>>), calls |-> called]
    ELSE LET word == word_counts[i].word
             count == word_counts[i].count
             level == Get(table, word)
         IN IF level = None
            THEN AnalyzeLoop(word_counts, i + 1, table, failing, result, called)
            ELSE IF ~Gate(level, count)
            THEN AnalyzeLoop(word_counts, i + 1, table, failing,
                     Append(result, [word |-> word, level |-> level, count |-> count]),
                     called)
            ELSE IF word = failing
            THEN [raised |-> TRUE, result |-> result,
                  calls |-> Append(called, [word |-> word, raised |-> TRUE])]
            ELSE LET suggestions == get_synonym_suggestions(word, table, A2)
                     word_data ==
                         IF suggestions /= <<>>
                         THEN [word |-> word, level |-> level, count |-> count,
                               suggestions |-> suggestions]
                         ELSE [word |-> word, level |-> level, count |-> count]
                 IN AnalyzeLoop(word_counts, i + 1, table, failing,
                        Append(result, word_data),
                        Append(called, [word |-> word, raised |-> FALSE]))

analyze_text(text, table, failing) ==
    AnalyzeLoop(CounterOf(Tokenize(text), <<>>), 1, table, failing, <<>>, <<>>)

\* ------------------------------------------------------------- the service
\* characters a request text is made of
TextChars == {"a", "b", "A", "_", " "}
Texts == UNION {[1..n -> TextChars] : n \in 0..MaxTextLen}

\* values of min_synonym_level a caller sends: the five tags and another str
MinLevels == Levels \cup {<<"X">>}

\* an exception is swallowed and what was assembled so far is returned
ResponseOfPartial(outcome) == [status |-> 200, body |-> outcome.result]

\* the try/except of the endpoint: the list, or HTTPException(500)
ResponseOf(outcome) ==
    IF outcome.raised
    THEN [status |-> 500, body |-> <<>>]
    ELSE [status |-> 200, body |-> outcome.result]

\* "if not word_levels" of the start-up code
IsEmptyTableIgnored(table) == FALSE

IsEmptyTable(table) == DOMAIN table = {}

EmptyTable == [k \in {} |-> None]

NoRequest == [text |-> <<>>, min_synonym_level |-> None]
NoResponse == [status |-> 0, body |-> <<>>]

Init ==
    /\ pc = "loading"
    /\ file_idx = 1
    /\ in_file = FALSE
    /\ nread = 0
    /\ word_levels = EmptyTable
    /\ observed = [k \in {} |-> {}]
    /\ variants = {}
    /\ printed = "none"
    /\ hashseed \in {0, 1}
    /\ request = NoRequest
    /\ response = NoResponse
    /\ calls = <<>>
    /\ resubmitted = FALSE

\* open(file_path) succeeds and next(f) skips the header line
OpenFile ==
    /\ pc = "loading"
    /\ ~in_file
    /\ file_idx <= Len(csv_files)
    /\ in_file' = TRUE
    /\ UNCHANGED <<pc, file_idx, nread, word_levels, observed, variants, printed,
                   hashseed, request, response, calls, resubmitted>>

\* open(file_path) raises FileNotFoundError: warn and go on with the next file
FileNotFound ==
    /\ pc = "loading"
    /\ ~in_file
    /\ file_idx <= Len(csv_files)
    /\ printed' = "Warning: file not found"
    /\ file_idx' = file_idx + 1
    /\ UNCHANGED <<pc, in_file, nread, word_levels, observed, variants,
                   hashseed, request, response, calls, resubmitted>>

\* one line "word|level" of the open file
ReadRecord ==
    /\ pc = "loading"
    /\ in_file
    /\ nread < MaxRecords
    /\ \E word \in RecordWords, level \in Levels :
        /\ word_levels' = StoreRecord(word_levels, word, level)
        /\ observed' =
             LET key == Lower(word) IN
             [k \in DOMAIN observed \cup {key} |->
                 IF k = key
                 THEN (IF k \in DOMAIN observed THEN observed[k] ELSE {}) \cup {level}
                 ELSE observed[k]]
        /\ variants' = variants \cup {word}
    /\ nread' = nread + 1
    /\ UNCHANGED <<pc, file_idx, in_file, printed,
                   hashseed, request, response, calls, resubmitted>>

\* the lines of the open file are exhausted
CloseFile ==
    /\ pc = "loading"
    /\ in_file
    /\ in_file' = FALSE
    /\ file_idx' = file_idx + 1
    /\ UNCHANGED <<pc, nread, word_levels, observed, variants, printed,
                   hashseed, request, response, calls, resubmitted>>

\* an exception other than FileNotFoundError leaves load_word_levels (an empty
\* file makes next(f) raise, a line without exactly one '|' makes the
\* unpacking raise); the start-up code prints the error and exits
LoadRaises ==
    /\ pc = "loading"
    /\ \/ ~in_file /\ file_idx <= Len(csv_files)
       \/ in_file
    /\ pc' = "exited"
    /\ printed' = "Error loading word levels"
    /\ in_file' = FALSE
    /\ UNCHANGED <<file_idx, nread, word_levels, observed, variants,
                   hashseed, request, response, calls, resubmitted>>

\* the start-up code of api.py once load_word_levels has returned: an empty
\* dict is fatal, otherwise the module is imported and the app can be run
Startup ==
    /\ pc = "loading"
    /\ ~in_file
    /\ file_idx > Len(csv_files)
    /\ IF IsEmptyTable(word_levels)
       THEN /\ pc' = "exited"
            /\ printed' = "Error: No word levels loaded"
       ELSE /\ pc' = "ready"
            /\ printed' = printed
    /\ nread' = 0
    /\ observed' = [k \in {} |-> {}]
    /\ variants' = {}
    /\ UNCHANGED <<file_idx, in_file, word_levels,
                   hashseed, request, response, calls, resubmitted>>

\* run(): uvicorn binds the port and the service accepts requests
run ==
    /\ pc = "ready"
    /\ pc' = "serving"
    /\ printed' = "Starting analysis service"
    /\ UNCHANGED <<file_idx, in_file, nread, word_levels, observed, variants,
                   hashseed, request, response, calls, resubmitted>>

\* run(): uvicorn.run raises OSError (the port is in use) and run re-raises
runFails ==
    /\ pc = "ready"
    /\ pc' = "exited"
    /\ printed' = "Error: Port is already in use"
    /\ UNCHANGED <<file_idx, in_file, nread, word_levels, observed, variants,
                   hashseed, request, response, calls, resubmitted>>

\* the body of analyze_text_endpoint for one request; the handler caches the
\* out-of-vocabulary tokens of the text in the dict
HandleCaching(req, failing, again) ==
    LET outcome == analyze_text(req.text, word_levels, failing)
        tokens == {w \in {Tokenize(req.text)[i] :
                            i \in 1..Len(Tokenize(req.text))} :
                       w \notin DOMAIN word_levels}
    IN /\ request' = req
       /\ response' = ResponseOf(outcome)
       /\ calls' = outcome.calls
       /\ resubmitted' = again
       /\ word_levels' = [k \in DOMAIN word_levels \cup tokens |->
                             IF k \in DOMAIN word_levels THEN word_levels[k] ELSE A1]
       /\ pc' = "responded"
       /\ UNCHANGED <<file_idx, in_file, nread, observed, variants, printed,
                      hashseed>>

\* the body of analyze_text_endpoint for one request
Handle(req, failing, again) ==
    LET outcome == analyze_text(req.text, word_levels, failing)
    IN /\ request' = req
       /\ response' = ResponseOf(outcome)
       /\ calls' = outcome.calls
       /\ resubmitted' = again
       /\ word_levels' = word_levels
       /\ pc' = "responded"
       /\ UNCHANGED <<file_idx, in_file, nread, observed, variants, printed,
                      hashseed>>

\* POST /analyze with a new request
analyze_text_endpoint ==
    /\ pc = "serving"
    /\ \E text \in Texts, min \in MinLevels, failing \in DOMAIN word_levels \cup {None} :
           Handle([text |-> text, min_synonym_level |-> min], failing, FALSE)

\* POST /analyze where the caller sends the request it has just sent once more
analyze_text_endpoint_again ==
    /\ pc = "responded"
    /\ ~resubmitted
    /\ \E failing \in DOMAIN word_levels \cup {None} :
           Handle(request, failing, TRUE)

\* the response has gone out and the locals of the call are dropped
ResponseSent ==
    /\ pc = "responded"
    /\ pc' = "serving"
    /\ request' = NoRequest
    /\ response' = NoResponse
    /\ calls' = <<>>
    /\ resubmitted' = FALSE
    /\ UNCHANGED <<file_idx, in_file, nread, word_levels, observed, variants, printed,
                   hashseed>>

Next ==
    \/ OpenFile
    \/ FileNotFound
    \/ ReadRecord
    \/ CloseFile
    \/ LoadRaises
    \/ Startup
    \/ run
    \/ runFails
    \/ analyze_text_endpoint
    \/ analyze_text_endpoint_again
    \/ ResponseSent

Spec == Init /\ [][Next]_vars

\* ------------------------------------------------------------ properties
\* position of a level in the CEFR order A1 < A2 < B1 < B2 < C1
Rank(level) ==
    CASE level = A1 -> 1
      [] level = A2 -> 2
      [] level = B1 -> 3
      [] level = B2 -> 4
      [] level = C1 -> 5

Served == pc = "responded" /\ response.status = 200
HasSuggestions(e) == "suggestions" \in DOMAIN e
SuggestionsOf(e) == IF HasSuggestions(e) THEN e.suggestions ELSE <<>>
Range(seq) == {seq[i] : i \in 1..Len(seq)}

\* C1: every suggestion returned for a request with a recognized
\* minSynonymLevel has a level at or above that minSynonymLevel in the CEFR order
C1_SuggestionsAtOrAboveRequestedMinimum ==
    (Served /\ request.min_synonym_level \in Levels) =>
        \A e \in Range(response.body) : \A sg \in Range(SuggestionsOf(e)) :
            Rank(sg.level) >= Rank(request.min_synonym_level)

\* C2: a request with an unrecognized minSynonymLevel is rejected before the
\* analysis begins: no provider call is made and no analysis result is returned
C2_UnrecognizedMinimumRejected ==
    (pc = "responded" /\ request.min_synonym_level \notin Levels) =>
        /\ response.status /= 200
        /\ response.body = <<>>
        /\ calls = <<>>

\* C3: while and after load_word_levels processes records, the table maps
\* exactly the lower-cased words of the records read, each to the highest
\* level (in the CEFR order) read for it
C3_TableHoldsHighestLevel ==
    pc = "loading" =>
        /\ DOMAIN word_levels = {Lower(w) : w \in variants}
        /\ DOMAIN word_levels = DOMAIN observed
        /\ \A k \in DOMAIN word_levels :
              /\ word_levels[k] \in observed[k]
              /\ \A l \in observed[k] : Rank(l) <= Rank(word_levels[k])

\* the load has completed, a word was read with two levels and in two spellings
C3_Witness ==
    /\ pc = "loading"
    /\ file_idx > Len(csv_files)
    /\ {<<"a">>, <<"A">>} \subseteq variants
    /\ Cardinality(observed[<<"a">>]) = 2

\* the maximal runs of word characters of a text, as pairs of positions
Runs(text) ==
    {r \in (1..Len(text)) \X (1..Len(text)) :
        /\ r[1] <= r[2]
        /\ \A k \in r[1]..r[2] : IsWordChar(text[k])
        /\ r[1] = 1 \/ ~IsWordChar(text[r[1] - 1])
        /\ r[2] = Len(text) \/ ~IsWordChar(text[r[2] + 1])}

RunWord(text, r) == Lower(SubSeq(text, r[1], r[2]))

\* C4: the entries are exactly the distinct lower-cased tokens of the text
\* that are keys of the table, once each, with the table's level and the
\* number of case-insensitive occurrences
C4_EntriesAreKnownTokens ==
    Served =>
        LET body == response.body
            text == request.text
        IN /\ {body[i].word : i \in 1..Len(body)} =
                  {RunWord(text, r) : r \in Runs(text)} \cap DOMAIN word_levels
           /\ \A i, j \in 1..Len(body) : body[i].word = body[j].word => i = j
           /\ \A i \in 1..Len(body) :
                 /\ body[i].level = word_levels[body[i].word]
                 /\ body[i].count =
                       Cardinality({r \in Runs(text) : RunWord(text, r) = body[i].word})

\* a word written in two cases is counted twice
C4_Witness ==
    /\ Served
    /\ "A" \in Range(request.text)
    /\ \E e \in Range(response.body) : e.count = 2

\* C5: consecutive entries are in (level, word) order: a strictly lower
\* level, or the same level and a strictly smaller word
C5_SortedByLevelThenWord ==
    Served =>
        \A i \in 1..(Len(response.body) - 1) :
            LET x == response.body[i]
                y == response.body[i + 1]
            IN \/ Rank(x.level) < Rank(y.level)
               \/ Rank(x.level) = Rank(y.level) /\ StrLess(x.word, y.word)

\* two entries of different levels, the lower one from the later token
C5_Witness ==
    /\ Served
    /\ Len(response.body) = 2
    /\ response.body[1].level /= response.body[2].level
    /\ Tokenize(request.text)[1] = response.body[2].word

\* the alternate forms of a word that have a level of at least A2 in the table
KnownAlternates(word) ==
    LET synsets == Synsets(word)
        forms == UNION {{ReplaceUnderscore(synsets[i].lemmas[j]) :
                            j \in 1..Len(synsets[i].lemmas)} : i \in 1..Len(synsets)}
    IN {f \in forms \ {word} :
           Lower(f) \in DOMAIN word_levels /\ Rank(word_levels[Lower(f)]) >= Rank(A2)}

Queried(word) == \E c \in Range(calls) : c.word = word
GatedIn(e) == Rank(e.level) = 1 \/ e.count > 1

\* C6 as stated: the provider is queried exactly for the words at A1 or
\* repeated, the other entries carry no suggestions, and every word at A1 or
\* repeated carries suggestions
C6_GatedWordsReceiveSuggestions ==
    Served =>
        \A e \in Range(response.body) :
            /\ Queried(e.word) <=> GatedIn(e)
            /\ ~GatedIn(e) => ~HasSuggestions(e)
            /\ GatedIn(e) => HasSuggestions(e)

\* C6 as amended: the provider is queried exactly for the words at A1 or
\* repeated, the other entries carry no suggestions, and a word at A1 or
\* repeated carries a (non-empty) suggestions field when the provider has an
\* alternate form for it at a known level of at least A2, and none otherwise
C6_SuggestionGating ==
    Served =>
        /\ \A c \in Range(calls) : \E e \in Range(response.body) : e.word = c.word
        /\ \A e \in Range(response.body) :
              /\ Queried(e.word) <=> GatedIn(e)
              /\ ~GatedIn(e) => ~HasSuggestions(e)
              /\ HasSuggestions(e) => e.suggestions /= <<>>
              /\ GatedIn(e) => (HasSuggestions(e) <=> KnownAlternates(e.word) /= {})

\* a word at A1 that occurs once carries suggestions
C6_Witness ==
    /\ Served
    /\ \E e \in Range(response.body) :
          e.level = A1 /\ e.count = 1 /\ HasSuggestions(e)

\* C7: no suggestion of an entry is the analyzed word, and no two suggestions
\* of an entry have the same word
C7_SuggestionsDifferFromWord ==
    Served =>
        \A e \in Range(response.body) :
            LET sgs == SuggestionsOf(e) IN
            /\ \A i \in 1..Len(sgs) : sgs[i].word /= e.word
            /\ \A i, j \in 1..Len(sgs) : sgs[i].word = sgs[j].word => i = j

\* the provider returns the word itself and a form that differs in case only;
\* the latter is suggested
C7_Witness ==
    /\ Served
    /\ \E e \in Range(response.body) :
          /\ e.word = <<"a">>
          /\ <<"a">> \in Range(Synsets(<<"a">>)[1].lemmas)
          /\ Len(SuggestionsOf(e)) >= 2
          /\ \E sg \in Range(e.suggestions) : sg.word = <<"A">>

\* C8: when a provider call raises, the request fails as a whole: the failed
\* call is the last call, no word is looked up twice, and no entry is returned
C8_LookupFailureFailsRequest ==
    (pc = "responded" /\ \E c \in Range(calls) : c.raised) =>
        /\ response.status = 500
        /\ response.body = <<>>
        /\ \A i \in 1..Len(calls) : calls[i].raised => i = Len(calls)
        /\ \A i, j \in 1..Len(calls) : calls[i].word = calls[j].word => i = j

\* the provider answered for one word and raised for the next
C8_Witness ==
    /\ pc = "responded"
    /\ Len(calls) = 2
    /\ ~calls[1].raised
    /\ calls[2].raised

Serving == pc \in {"serving", "responded"}
LoadDone == ~in_file /\ file_idx > Len(csv_files)

\* C9: a missing list only warns and loading goes on; requests are handled
\* only after the load has completed with a non-empty table; with an empty
\* table, or when loading raises, the process exits and serves nothing
C9_StartupStep ==
    /\ (pc = "loading" /\ printed' = "Warning: file not found" /\ file_idx' /= file_idx
            /\ ~in_file) =>
          /\ pc' = "loading"
          /\ word_levels' = word_levels
          /\ file_idx' = file_idx + 1
    /\ Serving' => (LoadDone' /\ DOMAIN word_levels' /= {})
    /\ (pc = "loading" /\ LoadDone /\ DOMAIN word_levels = {}) => pc' = "exited"
    /\ (pc = "loading" /\ printed' = "Error loading word levels") => pc' = "exited"
    /\ pc = "exited" => (pc' = "exited" /\ response' = NoResponse)

C9_StartupOrdering == [][C9_StartupStep]_vars

\* the last list was missing, the load completed and the service can start
C9_Witness ==
    /\ pc = "ready"
    /\ printed = "Warning: file not found"

\* C10: handling requests leaves the table as loaded, and
\* the same request sent again gets the same response
C10_RepeatStep ==
    /\ Serving => (word_levels' = word_levels /\ hashseed' = hashseed)
    /\ (pc = "responded" /\ pc' = "responded" /\ resubmitted'
            /\ response.status = 200 /\ response'.status = 200) =>
          (request' = request /\ response' = response)

C10_Idempotent == [][C10_RepeatStep]_vars

\* a request was sent twice and answered with two suggestions for a word
C10_Witness ==
    /\ Served
    /\ resubmitted
    /\ \E e \in Range(response.body) : Len(SuggestionsOf(e)) >= 2
====
